---- MODULE Spec2Model ----
(***************************************************************************)
(* Model of the calculator of src/script.js: the input buffer, the         *)
(* display, the history, and the expression pipeline                       *)
(* tokenize -> toRPN -> evalRPN run by evaluateExpression.                 *)
(*                                                                         *)
(* A JavaScript string is a sequence of one-character strings.  A number   *)
(* is an exact rational [n, d] in lowest terms with d > 0; d = 0 encodes   *)
(* the non-finite values (NaN).  The floating-point noise that line 233    *)
(* of the source rounds away (12 decimals) is below the rounding step for  *)
(* every value within the bounds, so the rounded decimal is computed from  *)
(* the exact value.                                                        *)
(***************************************************************************)
EXTENDS Integers, Sequences, FiniteSets, TLC

VARIABLES
  current,   \* the input buffer (line 12)
  display,   \* displayEl.textContent (lines 16, 245)
  history,   \* the list of {expr, result} (line 13)
  pc,        \* where the running call of evaluateExpression stands, or "idle"
  calls,     \* evaluateExpression calls made so far
  tokens,    \* evaluateExpression's tokens (line 227)
  rpn,       \* evaluateExpression's rpn (line 228)
  stack,     \* evalRPN's value stack (line 189)
  idx,       \* evalRPN's position in rpn (line 190)
  err        \* the message of the error thrown in the call, "" if none

vars == <<current, display, history, pc, calls, tokens, rpn, stack, idx, err>>

(***************************************************************************)
(* Bounds of the model.                                                    *)
(***************************************************************************)
\* longest input drawn from all strings over Alphabet
MaxLen == 3
\* operands of the generated well-formed expressions are 1..MaxAtom
MaxAtom == 3
\* evaluateExpression calls in one behaviour
MaxCalls == 2
\* longest digit run of an input whose value the model represents
MaxDigits == 8
\* longest buffer the keys extend in the interface model
MaxBuffer == 3
\* evaluateExpression calls in one behaviour of the interface model
MaxEvaluations == 1
\* integer digits from which Number(text) is Infinity whatever the digits are
\* (the largest double is below 1.8e308, a number of 309 digits)
OverflowDigits == 310

(***************************************************************************)
(* Characters and strings.                                                 *)
(***************************************************************************)
DigitChars == <<"0", "1", "2", "3", "4", "5", "6", "7", "8", "9">>

IsDigit(ch) == \E k \in 1..10 : DigitChars[k] = ch

DigitVal(ch) == (CHOOSE k \in 1..10 : DigitChars[k] = ch) - 1

\* /\s/ on the characters of the model
IsSpace(ch) == ch = " "

IsOperatorChar(ch) == ch = "+" \/ ch = "-" \/ ch = "*" \/ ch = "/"

RECURSIVE NatToStr(_)
NatToStr(k) ==
  IF k < 10 THEN <<DigitChars[k + 1]>>
  ELSE NatToStr(k \div 10) \o <<DigitChars[(k % 10) + 1]>>

RECURSIVE StrToNat(_)
StrToNat(s) ==
  IF s = <<>> THEN 0
  ELSE 10 * StrToNat(SubSeq(s, 1, Len(s) - 1)) + DigitVal(s[Len(s)])

RECURSIVE Pow10(_)
Pow10(k) == IF k = 0 THEN 1 ELSE 10 * Pow10(k - 1)

Count(s, ch) == Cardinality({i \in DOMAIN s : s[i] = ch})

(***************************************************************************)
(* Numbers.                                                                *)
(***************************************************************************)
Abs(x) == IF x < 0 THEN -x ELSE x

RECURSIVE GCD(_, _)
GCD(a, b) == IF b = 0 THEN a ELSE GCD(b, a % b)

NaN == [n |-> 0, d |-> 0]

Rat(a, b) ==
  LET g == GCD(Abs(a), Abs(b))
      s == IF b < 0 THEN -1 ELSE 1
  IN  [n |-> s * (a \div g), d |-> s * (b \div g)]

Int2Num(k) == [n |-> k, d |-> 1]

IsFinite(x) == x.d # 0

Add(a, b) == IF a.d = 0 \/ b.d = 0 THEN NaN ELSE Rat(a.n * b.d + b.n * a.d, a.d * b.d)

Sub(a, b) == IF a.d = 0 \/ b.d = 0 THEN NaN ELSE Rat(a.n * b.d - b.n * a.d, a.d * b.d)

Mul(a, b) == IF a.d = 0 \/ b.d = 0 THEN NaN ELSE Rat(a.n * b.n, a.d * b.d)

\* a / b of two numbers; b = 0 gives a non-finite value
Div(a, b) == IF a.d = 0 \/ b.d = 0 \/ b.n = 0 THEN NaN ELSE Rat(a.n * b.d, a.d * b.n)

\* the digits of an integer part that are left without its leading zeros
SignificantDigits(ip) ==
  LET nonzero == {j \in DOMAIN ip : ip[j] # "0"}
  IN  IF nonzero = {} THEN 0 ELSE Len(ip) + 1 - (CHOOSE j \in nonzero : \A k \in nonzero : j <= k)

\* Number(text) for a text of digits and dots: NaN for a text that is no
\* number, Infinity (non-finite as well) for an integer part of
\* OverflowDigits digits or more
ToNumber(text) ==
  LET dots == Count(text, ".")
      p == IF dots = 0 THEN Len(text) + 1 ELSE CHOOSE i \in DOMAIN text : text[i] = "."
      ip == SubSeq(text, 1, p - 1)
      fp == SubSeq(text, p + 1, Len(text))
  IN  IF dots > 1 \/ Len(text) = dots THEN NaN
      ELSE IF SignificantDigits(ip) >= OverflowDigits THEN NaN
      ELSE Rat(StrToNat(ip \o fp), Pow10(Len(fp)))

(***************************************************************************)
(* Math.round((x + Number.EPSILON) * 1e12) / 1e12 followed by String(x):   *)
(* the decimal digits of |x| by long division, rounded at the 12th decimal *)
(* (ties towards +Infinity, as Math.round), then written as JavaScript     *)
(* writes a number: plain decimals, or exponent form when 0 < |x| < 1e-6.  *)
(***************************************************************************)
\* decimals kept by the rounding of evaluateExpression (1e12)
RoundDecimals == 12

\* the first k decimals of r/d (0 <= r < d) and the remainder left after them
RECURSIVE FracDigits(_, _, _)
FracDigits(r, d, k) ==
  IF k = 0 THEN [digits |-> <<>>, rem |-> r]
  ELSE LET rest == FracDigits((r * 10) % d, d, k - 1)
       IN  [digits |-> <<(r * 10) \div d>> \o rest.digits, rem |-> rest.rem]

\* add one unit in the last place of a digit sequence
RECURSIVE IncDigits(_)
IncDigits(ds) ==
  IF ds = <<>> THEN [digits |-> <<>>, carry |-> 1]
  ELSE IF ds[Len(ds)] < 9
       THEN [digits |-> [ds EXCEPT ![Len(ds)] = @ + 1], carry |-> 0]
       ELSE LET up == IncDigits(SubSeq(ds, 1, Len(ds) - 1))
            IN  [digits |-> up.digits \o <<0>>, carry |-> up.carry]

RECURSIVE StripTrailingZeros(_)
StripTrailingZeros(ds) ==
  IF ds # <<>> /\ ds[Len(ds)] = 0 THEN StripTrailingZeros(SubSeq(ds, 1, Len(ds) - 1))
  ELSE ds

RECURSIVE LeadingZeros(_)
LeadingZeros(ds) ==
  IF ds # <<>> /\ ds[1] = 0 THEN 1 + LeadingZeros(Tail(ds)) ELSE 0

DigitsToStr(ds) == [i \in DOMAIN ds |-> DigitChars[ds[i] + 1]]

\* the value rounded to RoundDecimals decimals: sign, integer part, decimals
RoundResult(x) ==
  LET a == Abs(x.n)
      fd == FracDigits(a % x.d, x.d, RoundDecimals)
      up == IF x.n >= 0 THEN 2 * fd.rem >= x.d ELSE 2 * fd.rem > x.d
      inc == IncDigits(fd.digits)
      ip == IF up THEN (a \div x.d) + inc.carry ELSE a \div x.d
      ds == StripTrailingZeros(IF up THEN inc.digits ELSE fd.digits)
  IN  [neg |-> x.n < 0 /\ (ip # 0 \/ ds # <<>>), ip |-> ip, frac |-> ds]

\* String(number) of a rounded value
NumberToString(r) ==
  LET z == LeadingZeros(r.frac)
      sig == SubSeq(r.frac, z + 1, Len(r.frac))
      body == IF r.frac = <<>> THEN NatToStr(r.ip)
              ELSE IF r.ip = 0 /\ z >= 6
                   THEN DigitsToStr(<<sig[1]>>)
                        \o (IF Len(sig) > 1 THEN <<".">> \o DigitsToStr(Tail(sig)) ELSE <<>>)
                        \o <<"e", "-">> \o NatToStr(z + 1)
                   ELSE NatToStr(r.ip) \o <<".">> \o DigitsToStr(r.frac)
  IN  IF r.neg THEN <<"-">> \o body ELSE body

\* String(Math.round((result + Number.EPSILON) * 1e12) / 1e12)
ResultString(x) == NumberToString(RoundResult(x))

(***************************************************************************)
(* tokenize (lines 99-136).  A token is a record with a type and, for a    *)
(* number (its text) and an operator (its symbol), a value.  A throw is    *)
(* the field err, "" when the function returns normally.                   *)
(***************************************************************************)
NumberTok(text) == [type |-> "number", value |-> text]

OperatorTok(ch) == [type |-> "operator", value |-> ch]

LeftParenTok == [type |-> "left_paren"]

RightParenTok == [type |-> "right_paren"]

PercentTok == [type |-> "percent"]

\* the end of the run of [0-9.] that starts before position i (lines 110-112)
ScanNumber(expr, i) ==
  LET stops == {j \in i..Len(expr) : ~(IsDigit(expr[j]) \/ expr[j] = ".")}
  IN  IF stops = {} THEN Len(expr) + 1 ELSE CHOOSE j \in stops : \A k \in stops : j <= k

\* variant: a '-' after '(' is not taken as unary
IsUnaryMinus_NotAfterParen(ch, toks) ==
  /\ ch = "-"
  /\ \/ Len(toks) = 0
     \/ (toks[Len(toks)].type = "operator" /\ toks[Len(toks)].value # "%")

\* the condition of line 120: this operator character is a unary minus
IsUnaryMinus(ch, toks) ==
  /\ ch = "-"
  /\ \/ Len(toks) = 0
     \/ (toks[Len(toks)].type = "operator" /\ toks[Len(toks)].value # "%")
     \/ toks[Len(toks)].type = "left_paren"

\* variant: the zero is inserted before a leading or repeated '+' as well
OperatorTokens_AnySign(ch, toks) ==
  IF IsUnaryMinus(ch, toks) \/ IsUnaryMinus(IF ch = "+" THEN "-" ELSE ch, toks)
  THEN <<NumberTok(<<"0">>), OperatorTok(ch)>>
  ELSE <<OperatorTok(ch)>>

\* the tokens pushed for an operator character (lines 118-123)
OperatorTokens(ch, toks) ==
  IF IsUnaryMinus(ch, toks) THEN <<NumberTok(<<"0">>), OperatorTok(ch)>>
  ELSE <<OperatorTok(ch)>>

\* the while loop of tokenize from position i with the tokens pushed so far
RECURSIVE TokenizeFrom(_, _, _)
TokenizeFrom(expr, i, toks) ==
  IF i > Len(expr) THEN [tokens |-> toks, err |-> ""]
  ELSE LET ch == expr[i] IN
    IF IsSpace(ch) THEN TokenizeFrom(expr, i + 1, toks)
    ELSE IF IsDigit(ch) \/ ch = "."
      THEN LET j == ScanNumber(expr, i + 1)
           IN  TokenizeFrom(expr, j, Append(toks, NumberTok(SubSeq(expr, i, j - 1))))
    ELSE IF IsOperatorChar(ch)
      THEN TokenizeFrom(expr, i + 1, toks \o OperatorTokens(ch, toks))
    ELSE IF ch = "(" THEN TokenizeFrom(expr, i + 1, Append(toks, LeftParenTok))
    ELSE IF ch = ")" THEN TokenizeFrom(expr, i + 1, Append(toks, RightParenTok))
    ELSE IF ch = "%" THEN TokenizeFrom(expr, i + 1, Append(toks, PercentTok))
    ELSE [tokens |-> toks, err |-> "Invalid character"]

\* variant: the scan stops at an unknown character and returns what it has
tokenize_Partial(expr) == [tokens |-> TokenizeFrom(expr, 1, <<>>).tokens, err |-> ""]

tokenize(expr) == TokenizeFrom(expr, 1, <<>>)

(***************************************************************************)
(* toRPN (lines 139-185): shunting-yard with the output list and the       *)
(* operator stack ops (top at the end).                                    *)
(***************************************************************************)
precedence == ("+" :> 1) @@ ("-" :> 1) @@ ("*" :> 2) @@ ("/" :> 2)

isLeftAssoc == ("+" :> TRUE) @@ ("-" :> TRUE) @@ ("*" :> TRUE) @@ ("/" :> TRUE)

\* variant: equal precedence is not popped (every operator right-associative)
PopsBefore_Strict(o1, o2) == precedence[o1] < precedence[o2]

\* the condition of line 157: operator o2 on the stack is popped before o1 is pushed
PopsBefore(o1, o2) ==
  \/ (isLeftAssoc[o1] /\ precedence[o1] <= precedence[o2])
  \/ (~isLeftAssoc[o1] /\ precedence[o1] < precedence[o2])

\* the while loop of lines 153-163
RECURSIVE PopOperators(_, _, _)
PopOperators(o1, output, ops) ==
  IF /\ Len(ops) > 0
     /\ ops[Len(ops)].type = "operator"
     /\ PopsBefore(o1, ops[Len(ops)].value)
  THEN PopOperators(o1, Append(output, ops[Len(ops)]), SubSeq(ops, 1, Len(ops) - 1))
  ELSE [output |-> output, ops |-> ops]

\* variant: the '(' that closes the loop is emitted like the operators above it
RECURSIVE PopToLeftParen_EmitParen(_, _)
PopToLeftParen_EmitParen(output, ops) ==
  IF Len(ops) = 0 THEN [output |-> output, ops |-> ops, found |-> FALSE]
  ELSE LET top == ops[Len(ops)]
           rest == SubSeq(ops, 1, Len(ops) - 1)
       IN  IF top.type = "left_paren"
           THEN [output |-> Append(output, top), ops |-> rest, found |-> TRUE]
           ELSE PopToLeftParen_EmitParen(Append(output, top), rest)

\* the while loop of lines 169-173
RECURSIVE PopToLeftParen(_, _)
PopToLeftParen(output, ops) ==
  IF Len(ops) = 0 THEN [output |-> output, ops |-> ops, found |-> FALSE]
  ELSE LET top == ops[Len(ops)]
           rest == SubSeq(ops, 1, Len(ops) - 1)
       IN  IF top.type = "left_paren" THEN [output |-> output, ops |-> rest, found |-> TRUE]
           ELSE PopToLeftParen(Append(output, top), rest)

\* variant: the final loop emits whatever is left, parentheses included
PopRemaining_NoCheck(output, ops) ==
  [output |-> output \o [i \in 1..Len(ops) |-> ops[Len(ops) + 1 - i]], ops |-> <<>>, err |-> ""]

\* the while loop of lines 178-182
RECURSIVE PopRemaining(_, _)
PopRemaining(output, ops) ==
  IF Len(ops) = 0 THEN [output |-> output, ops |-> ops, err |-> ""]
  ELSE LET top == ops[Len(ops)]
           rest == SubSeq(ops, 1, Len(ops) - 1)
       IN  IF top.type = "left_paren" \/ top.type = "right_paren"
           THEN [output |-> output, ops |-> rest, err |-> "Mismatched parentheses"]
           ELSE PopRemaining(Append(output, top), rest)

\* tokens.forEach of lines 145-176 from token i on, then the final loop
RECURSIVE ToRPNFrom(_, _, _, _)
ToRPNFrom(toks, i, output, ops) ==
  IF i > Len(toks) THEN PopRemaining(output, ops)
  ELSE LET token == toks[i] IN
    IF token.type = "number" THEN ToRPNFrom(toks, i + 1, Append(output, token), ops)
    ELSE IF token.type = "percent" THEN ToRPNFrom(toks, i + 1, Append(output, token), ops)
    ELSE IF token.type = "operator"
      THEN LET p == PopOperators(token.value, output, ops)
           IN  ToRPNFrom(toks, i + 1, p.output, Append(p.ops, token))
    ELSE IF token.type = "left_paren" THEN ToRPNFrom(toks, i + 1, output, Append(ops, token))
    ELSE LET p == PopToLeftParen(output, ops)
         IN  IF p.found THEN ToRPNFrom(toks, i + 1, p.output, p.ops)
             ELSE [output |-> p.output, ops |-> p.ops, err |-> "Mismatched parentheses"]

IsPercentTok(token) == token.type = "percent"

IsNotPercentTok(token) == token.type # "percent"

\* variant: percent is applied last, to the value of the whole expression
toRPN_PercentOfTotal(toks) ==
  LET r == ToRPNFrom(SelectSeq(toks, IsNotPercentTok), 1, <<>>, <<>>)
  IN  [r EXCEPT !.output = @ \o SelectSeq(toks, IsPercentTok)]

toRPN(toks) == ToRPNFrom(toks, 1, <<>>, <<>>)

(***************************************************************************)
(* evalRPN (lines 188-221): one token applied to the value stack (top at   *)
(* the end).  Array.pop() of an empty array gives undefined, which every   *)
(* arithmetic operation turns into NaN.                                    *)
(***************************************************************************)
Top(s) == IF Len(s) = 0 THEN NaN ELSE s[Len(s)]

Pop(s) == IF Len(s) = 0 THEN s ELSE SubSeq(s, 1, Len(s) - 1)

\* variant: no operand check before the pop
EvalPercent_NoCheck(s) == [stack |-> Append(Pop(s), Div(Top(s), Int2Num(100))), err |-> ""]

\* lines 195-198
EvalPercent(s) ==
  IF Len(s) < 1 THEN [stack |-> s, err |-> "Percent error"]
  ELSE [stack |-> Append(Pop(s), Div(Top(s), Int2Num(100))), err |-> ""]

\* variant: no zero check before the division
EvalDivide_NoCheck(a, b, s) == [stack |-> Append(s, Div(a, b)), err |-> ""]

\* lines 208-211
EvalDivide(a, b, s) ==
  IF IsFinite(b) /\ b.n = 0 THEN [stack |-> s, err |-> "Division by zero"]
  ELSE [stack |-> Append(s, Div(a, b)), err |-> ""]

\* lines 199-214
EvalOperator(s, op) ==
  IF Len(s) < 2 THEN [stack |-> s, err |-> "Operator error"]
  ELSE LET b == Top(s)
           a == Top(Pop(s))
           rest == Pop(Pop(s))
       IN  IF op = "+" THEN [stack |-> Append(rest, Add(a, b)), err |-> ""]
           ELSE IF op = "-" THEN [stack |-> Append(rest, Sub(a, b)), err |-> ""]
           ELSE IF op = "*" THEN [stack |-> Append(rest, Mul(a, b)), err |-> ""]
           ELSE IF op = "/" THEN EvalDivide(a, b, rest)
           ELSE [stack |-> rest, err |-> "Unknown operator"]

\* lines 191-194
EvalNumber(s, text) ==
  LET n == ToNumber(text)
  IN  IF ~IsFinite(n) THEN [stack |-> s, err |-> "Invalid number"]
      ELSE [stack |-> Append(s, n), err |-> ""]

\* the body of the for loop of lines 190-218
EvalToken(s, token) ==
  IF token.type = "number" THEN EvalNumber(s, token.value)
  ELSE IF token.type = "percent" THEN EvalPercent(s)
  ELSE IF token.type = "operator" THEN EvalOperator(s, token.value)
  ELSE [stack |-> s, err |-> "Unexpected token in RPN"]

\* the for loop of lines 190-218 from token i on
RECURSIVE EvalFrom(_, _, _)
EvalFrom(toks, i, s) ==
  IF i > Len(toks) THEN [stack |-> s, err |-> ""]
  ELSE LET r == EvalToken(s, toks[i])
       IN  IF r.err # "" THEN r ELSE EvalFrom(toks, i + 1, r.stack)

\* variant: the value on top is returned whatever else the stack holds
EvalResult_Top(s) ==
  IF Len(s) < 1 THEN [value |-> NaN, err |-> "Invalid expression"]
  ELSE [value |-> s[Len(s)], err |-> ""]

\* lines 219-220 on the stack the loop leaves
EvalResult(s) ==
  IF Len(s) # 1 THEN [value |-> NaN, err |-> "Invalid expression"]
  ELSE [value |-> s[1], err |-> ""]

evalRPN(toks) ==
  LET r == EvalFrom(toks, 1, <<>>)
  IN  IF r.err # "" THEN [value |-> NaN, err |-> r.err] ELSE EvalResult(r.stack)

(***************************************************************************)
(* The application state and evaluateExpression (lines 224-248).           *)
(***************************************************************************)
\* history.length above which the oldest entry is shifted out (line 238)
HistoryLimit == 200

ErrorText == <<"E", "r", "r", "o", "r">>

\* what updateDisplay (lines 15-17) shows for a buffer
DisplayOf(cur) == IF cur = <<>> THEN <<"0">> ELSE cur

\* variant: the entry is pushed after the buffer has taken the result
PushHistory_ResultAsExpr(h, expr, result) ==
  LET pushed == Append(h, [expr |-> result, result |-> result])
  IN  IF Len(pushed) > HistoryLimit THEN Tail(pushed) ELSE pushed

\* variant: the entry is pushed and nothing is ever dropped
PushHistory_NoShift(h, expr, result) ==
  Append(h, [expr |-> expr, result |-> result])

\* lines 236-238: push, then keep only the last HistoryLimit entries
PushHistory(h, expr, result) ==
  LET pushed == Append(h, [expr |-> expr, result |-> result])
  IN  IF Len(pushed) > HistoryLimit THEN Tail(pushed) ELSE pushed

\* position i starts a run of [0-9.]
IsRunStart(expr, i) ==
  /\ IsDigit(expr[i]) \/ expr[i] = "."
  /\ i = 1 \/ ~(IsDigit(expr[i - 1]) \/ expr[i - 1] = ".")

\* the run of digits that starts at i is a number too large to be finite
Overflows(expr, i) ==
  /\ \A j \in i..(ScanNumber(expr, i) - 1) : IsDigit(expr[j])
  /\ SignificantDigits(SubSeq(expr, i, ScanNumber(expr, i) - 1)) >= OverflowDigits

\* every number of the expression is one the model represents: no longer
\* than MaxDigits, or too large to be finite
InRange(expr) ==
  \A i \in 1..Len(expr) :
     IsRunStart(expr, i) => (ScanNumber(expr, i) - i <= MaxDigits \/ Overflows(expr, i))

\* lines 227-233 and 242 as one function of the expression: the result string,
\* or the message of the error thrown
Evaluate(expr) ==
  LET t == tokenize(expr)
      r == toRPN(t.tokens)
      v == evalRPN(r.output)
  IN  IF t.err # "" THEN [ok |-> FALSE, result |-> <<>>, err |-> t.err]
      ELSE IF r.err # "" THEN [ok |-> FALSE, result |-> <<>>, err |-> r.err]
      ELSE IF v.err # "" THEN [ok |-> FALSE, result |-> <<>>, err |-> v.err]
      ELSE IF ~IsFinite(v.value) THEN [ok |-> FALSE, result |-> <<>>, err |-> "Math error"]
      ELSE [ok |-> TRUE, result |-> ResultString(v.value), err |-> ""]

\* variant: the value stack is kept from one call to the next
EvBegin_KeepStack ==
  /\ pc = "idle"
  /\ calls < MaxCalls
  /\ InRange(current)
  /\ calls' = calls + 1
  /\ pc' = IF current = <<>> THEN "idle" ELSE "tokenize"
  /\ tokens' = <<>>
  /\ rpn' = <<>>
  /\ idx' = 0
  /\ err' = ""
  /\ UNCHANGED <<current, display, history, stack>>

\* variant: no early return, an empty buffer enters the try block as well
EvBegin_NoEarlyReturn ==
  /\ pc = "idle"
  /\ calls < MaxCalls
  /\ InRange(current)
  /\ calls' = calls + 1
  /\ pc' = "tokenize"
  /\ tokens' = <<>>
  /\ rpn' = <<>>
  /\ stack' = <<>>
  /\ idx' = 0
  /\ err' = ""
  /\ UNCHANGED <<current, display, history>>

\* line 225 and the entry of the try block: an empty buffer returns at once
EvBegin ==
  /\ pc = "idle"
  /\ calls < MaxCalls
  /\ InRange(current)
  /\ calls' = calls + 1
  /\ pc' = IF current = <<>> THEN "idle" ELSE "tokenize"
  /\ tokens' = <<>>
  /\ rpn' = <<>>
  /\ stack' = <<>>
  /\ idx' = 0
  /\ err' = ""
  /\ UNCHANGED <<current, display, history>>

\* line 227: a throw of tokenize leaves tokens unassigned
EvTokenize ==
  /\ pc = "tokenize"
  /\ LET r == tokenize(current)
     IN  IF r.err # ""
         THEN /\ err' = r.err
              /\ pc' = "catch"
              /\ UNCHANGED tokens
         ELSE /\ tokens' = r.tokens
              /\ pc' = "parse"
              /\ UNCHANGED err
  /\ UNCHANGED <<current, display, history, calls, rpn, stack, idx>>

\* line 228
EvToRPN ==
  /\ pc = "parse"
  /\ LET r == toRPN(tokens)
     IN  IF r.err # ""
         THEN /\ err' = r.err
              /\ pc' = "catch"
              /\ UNCHANGED <<rpn, idx>>
         ELSE /\ rpn' = r.output
              /\ idx' = 1
              /\ pc' = "eval"
              /\ UNCHANGED err
  /\ UNCHANGED <<current, display, history, calls, tokens, stack>>

\* line 229, one pass of the for loop of evalRPN
EvToken ==
  /\ pc = "eval"
  /\ idx <= Len(rpn)
  /\ LET r == EvalToken(stack, rpn[idx])
     IN  /\ stack' = r.stack
         /\ err' = r.err
         /\ IF r.err # ""
            THEN pc' = "catch" /\ UNCHANGED idx
            ELSE pc' = "eval" /\ idx' = idx + 1
  /\ UNCHANGED <<current, display, history, calls, tokens, rpn>>

\* lines 219-220 and 230-243: the end of evalRPN, the finiteness check, the
\* rounding, the history entry and the new buffer
EvFinish ==
  /\ pc = "eval"
  /\ idx > Len(rpn)
  /\ LET r == EvalResult(stack)
     IN  IF r.err # ""
         THEN /\ err' = r.err
              /\ pc' = "catch"
              /\ UNCHANGED <<current, display, history>>
         ELSE IF ~IsFinite(r.value)
         THEN /\ err' = "Math error"
              /\ pc' = "catch"
              /\ UNCHANGED <<current, display, history>>
         ELSE /\ history' = PushHistory(history, current, ResultString(r.value))
              /\ current' = ResultString(r.value)
              /\ display' = DisplayOf(ResultString(r.value))
              /\ pc' = "idle"
              /\ UNCHANGED err
  /\ UNCHANGED <<calls, tokens, rpn, stack, idx>>

\* variant: the catch block shows the error and keeps the buffer
EvCatch_KeepBuffer ==
  /\ pc = "catch"
  /\ display' = ErrorText
  /\ pc' = "idle"
  /\ UNCHANGED <<current, history, calls, tokens, rpn, stack, idx, err>>

\* lines 244-247
EvCatch ==
  /\ pc = "catch"
  /\ display' = ErrorText
  /\ current' = <<>>
  /\ pc' = "idle"
  /\ UNCHANGED <<history, calls, tokens, rpn, stack, idx, err>>

(***************************************************************************)
(* The expressions evaluated: every string of at most MaxLen characters    *)
(* over Alphabet, the well-formed expressions of three operands 1..MaxAtom *)
(* with and without parentheses, and the expressions the documentation     *)
(* of the pipeline names.                                                  *)
(***************************************************************************)
Alphabet == {"0", "1", "5", ".", "+", "-", "*", "/", "(", ")", "%", "a", " "}

ShortStrings == UNION {[1..m -> Alphabet] : m \in 0..MaxLen}

OperatorChars == {"+", "-", "*", "/"}

Atoms == {NatToStr(a) : a \in 1..MaxAtom}

Generated ==
  UNION {{a \o <<o1>> \o b \o <<o2>> \o c,
          <<"(">> \o a \o <<o1>> \o b \o <<")">> \o <<o2>> \o c,
          a \o <<o1>> \o <<"(">> \o b \o <<o2>> \o c \o <<")">>}
         : <<a, b, c, o1, o2>> \in Atoms \X Atoms \X Atoms \X OperatorChars \X OperatorChars}

Examples ==
  { <<"2", "+", "3", "*", "4">>,
    <<"(", "2", "+", "3", ")", "*", "4">>,
    <<"8", "-", "3", "-", "2">>,
    <<"-", "5", "+", "3">>,
    <<"3", "*", "-", "2">>,
    <<"(", "-", "2", ")", "*", "3">>,
    <<"5", "0", "%">>,
    <<"2", "0", "0", "+", "1", "0", "%">>,
    <<"2", "0", "0", "-", "1", "0", "%">>,
    <<"2", "0", "0", "*", "1", "0", "%">>,
    <<"2", "0", "0", "/", "1", "0", "%">>,
    <<"5", "/", "0">>,
    <<"5", "/", "(", "2", "-", "2", ")">>,
    <<"(", "1", "+", "2">>,
    <<"1", "+", "2", ")">>,
    <<"1", "+", "a">>,
    <<"0", ".", "1", "+", "0", ".", "2">>,
    <<"+", "5">>,
    <<"%">>,
    <<"1", "%", "%", "%", "%">>,
    <<"1", "/", "8", "0", "0", "0", "0", "0", "0">>,
    <<"(", "1", ")", "(", "2", ")">>,
    <<"1", ".", "2", ".", "3">> }

\* a binary operator followed by a percentage: a op n%
PercentInputs ==
  {a \o <<o>> \o n \o <<"%">> : <<a, n, o>> \in Atoms \X (Atoms \cup {<<"0">>}) \X OperatorChars}

Inputs == ShortStrings \cup Generated \cup PercentInputs \cup Examples

InitEval ==
  /\ current \in Inputs
  /\ display = DisplayOf(current)
  /\ history = <<>>
  /\ pc = "idle"
  /\ calls = 0
  /\ tokens = <<>>
  /\ rpn = <<>>
  /\ stack = <<>>
  /\ idx = 0
  /\ err = ""

NextEval == EvBegin \/ EvTokenize \/ EvToRPN \/ EvToken \/ EvFinish \/ EvCatch

SpecEval == InitEval /\ [][NextEval]_vars

(***************************************************************************)
(* The interface: the keys and the keyboard (appendValue, backspace,       *)
(* clearAll, evaluateExpression), the history list and its clear button.   *)
(* evaluateExpression is one step here.  The keys extend a buffer shorter  *)
(* than MaxBuffer; before the first evaluation the key LongRunKey also     *)
(* extends a buffer made of that digit alone, up to OverflowDigits.        *)
(***************************************************************************)
Keys == {"0", "1", ".", "-", "%", "("}

LongRunKey == "1"

Repeat(ch, k) == [i \in 1..k |-> ch]

\* the characters of the regular expression of lines 61 and 74
IsSeparator(ch) == IsOperatorChar(ch) \/ ch = "(" \/ ch = ")" \/ ch = "%"

\* parts[parts.length - 1] of lines 61-62 and 74-75
LastSegment(cur) ==
  LET seps == {i \in DOMAIN cur : IsSeparator(cur[i])}
      p == IF seps = {} THEN 0 ELSE CHOOSE i \in seps : \A j \in seps : j <= i
  IN  SubSeq(cur, p + 1, Len(cur))

\* variant: a dot is never refused
DotBlocked_Never(cur) == FALSE

\* line 76: the last segment already has a dot
DotBlocked(cur) == Count(LastSegment(cur), ".") > 0

\* stored entries as earlier sessions leave them (line 13): k numbers entered
\* and evaluated one after the other
StoredHistory(k) == [i \in 1..k |-> [expr |-> NatToStr(i), result |-> NatToStr(i)]]

\* lines 58-84
appendValue(val) ==
  /\ pc = "idle"
  /\ \/ Len(current) < MaxBuffer
     \/ /\ val = LongRunKey
        /\ calls = 0
        /\ current = Repeat(LongRunKey, Len(current))
        /\ Len(current) < OverflowDigits
  /\ IF IsDigit(val) /\ LastSegment(current) = <<"0">>
     THEN /\ current' = SubSeq(current, 1, Len(current) - 1) \o <<val>>
          /\ display' = DisplayOf(current')
     ELSE IF val = "." /\ DotBlocked(current)
     THEN UNCHANGED <<current, display>>
     ELSE IF val = "%" /\ current = <<>>
     THEN UNCHANGED <<current, display>>
     ELSE /\ current' = current \o (IF val = "." /\ LastSegment(current) = <<>>
                                    THEN <<"0", ".">>
                                    ELSE <<val>>)
          /\ display' = DisplayOf(current')
  /\ UNCHANGED <<history, pc, calls, tokens, rpn, stack, idx, err>>

\* lines 87-90
backspace ==
  /\ pc = "idle"
  /\ current' = SubSeq(current, 1, Len(current) - 1)
  /\ display' = DisplayOf(current')
  /\ UNCHANGED <<history, pc, calls, tokens, rpn, stack, idx, err>>

\* lines 93-96
clearAll ==
  /\ pc = "idle"
  /\ current' = <<>>
  /\ display' = DisplayOf(current')
  /\ UNCHANGED <<history, pc, calls, tokens, rpn, stack, idx, err>>

\* lines 224-248 in one step; err keeps the message of the error caught
evaluateExpression ==
  /\ pc = "idle"
  /\ calls < MaxEvaluations
  /\ InRange(current)
  /\ calls' = calls + 1
  /\ IF current = <<>>
     THEN /\ err' = ""
          /\ UNCHANGED <<current, display, history>>
     ELSE LET r == Evaluate(current)
          IN  IF r.ok
              THEN /\ history' = PushHistory(history, current, r.result)
                   /\ current' = r.result
                   /\ display' = DisplayOf(r.result)
                   /\ err' = ""
              ELSE /\ display' = ErrorText
                   /\ current' = <<>>
                   /\ err' = r.err
                   /\ UNCHANGED history
  /\ UNCHANGED <<pc, tokens, rpn, stack, idx>>

\* lines 43-52: a click or Enter on the i-th entry of the history
selectHistoryItem(i) ==
  /\ pc = "idle"
  /\ i \in DOMAIN history
  /\ current' = history[i].expr
  /\ display' = DisplayOf(current')
  /\ UNCHANGED <<history, pc, calls, tokens, rpn, stack, idx, err>>

\* lines 290-294
clearHistory ==
  /\ pc = "idle"
  /\ history' = <<>>
  /\ UNCHANGED <<current, display, pc, calls, tokens, rpn, stack, idx, err>>

\* lines 12-13 and 306-307: an empty buffer, and the history of the storage:
\* none, one entry short of the limit, or at the limit
Init ==
  /\ current = <<>>
  /\ display = <<"0">>
  /\ history \in {<<>>, StoredHistory(HistoryLimit - 1), StoredHistory(HistoryLimit)}
  /\ pc = "idle"
  /\ calls = 0
  /\ tokens = <<>>
  /\ rpn = <<>>
  /\ stack = <<>>
  /\ idx = 0
  /\ err = ""

Next ==
  \/ \E val \in Keys : appendValue(val)
  \/ backspace
  \/ clearAll
  \/ evaluateExpression
  \/ \E i \in {1, Len(history)} : selectHistoryItem(i)
  \/ clearHistory

Spec == Init /\ [][Next]_vars

(***************************************************************************)
(* Properties.                                                             *)
(***************************************************************************)
\* a call of evaluateExpression has run evalRPN's loop to its end
EvalLoopDone == pc = "eval" /\ idx > Len(rpn)

\* the outcome recorded for an expression: every history entry made from it
ResultsOf(expr) == {history[i].result : i \in {j \in DOMAIN history : history[j].expr = expr}}

\* the call in progress on expr has failed
FailedOn(expr) == pc = "catch" /\ current = expr

\* C1 (as claimed): a '-' at the start, after a binary operator or after '('
\* negates the operand that follows: "-5+3" yields -2, "3*-2" yields -6 and
\* "(-2)*3" yields -6, and none of the three fails.
C1_UnaryMinusNegates ==
  /\ ResultsOf(<<"-", "5", "+", "3">>) \subseteq {<<"-", "2">>}
  /\ ResultsOf(<<"3", "*", "-", "2">>) \subseteq {<<"-", "6">>}
  /\ ResultsOf(<<"(", "-", "2", ")", "*", "3">>) \subseteq {<<"-", "6">>}
  /\ ~FailedOn(<<"-", "5", "+", "3">>)
  /\ ~FailedOn(<<"3", "*", "-", "2">>)
  /\ ~FailedOn(<<"(", "-", "2", ")", "*", "3">>)

\* C2 (as claimed): evaluating "+5" does not fail with OperatorError, the
\* tokenizer having put a zero before the leading sign.
C2_PlusFiveNoOperatorError ==
  (current = <<"+", "5">> /\ pc # "idle") =>
     /\ err # "Operator error"
     /\ (pc \notin {"tokenize", "catch"} => tokens[1] = NumberTok(<<"0">>))

\* C2 (amended): evaluating "+5" fails with OperatorError: the tokenizer puts no
\* zero before a leading '+', so the operator finds one operand; the failure is
\* raised with the value stack left as it was, and "-5", where the zero is
\* inserted, evaluates to -5.
C2_PlusFiveOperatorError ==
  /\ (current = <<"+", "5">> /\ pc \notin {"idle", "tokenize"}) =>
        /\ tokens = <<OperatorTok("+"), NumberTok(<<"5">>)>>
        /\ pc \in {"parse", "eval", "catch"}
        /\ ~EvalLoopDone
        /\ (pc = "catch" => err = "Operator error" /\ stack = <<Int2Num(5)>>)
  /\ ResultsOf(<<"+", "5">>) = {}
  /\ ResultsOf(<<"-", "5">>) \subseteq {<<"-", "5">>}
  /\ ~FailedOn(<<"-", "5">>)

C2_Witness ==
  pc = "catch" /\ current = <<"+", "5">> /\ err = "Operator error"

(***************************************************************************)
(* The standard reading of an infix expression over non-negative integer   *)
(* literals, binary + - * / and parentheses, by recursive descent on the   *)
(* characters: an expression is terms joined by + or -, a term is factors  *)
(* joined by * or /, a factor is a run of digits or an expression in       *)
(* parentheses; all operators group to the left.  A division that is not   *)
(* exact, or by zero, puts the expression outside the reading.             *)
(***************************************************************************)
StdFail == [ok |-> FALSE, v |-> 0, i |-> 0]

RECURSIVE StdDigitsEnd(_, _)
StdDigitsEnd(s, i) == IF i <= Len(s) /\ IsDigit(s[i]) THEN StdDigitsEnd(s, i + 1) ELSE i

StdQuotient(a, b) == (IF (a < 0) = (b < 0) THEN 1 ELSE -1) * (Abs(a) \div Abs(b))

RECURSIVE StdExpr(_, _), StdExprRest(_, _, _), StdTerm(_, _), StdTermRest(_, _, _), StdFactor(_, _)

StdFactor(s, i) ==
  IF i > Len(s) THEN StdFail
  ELSE IF s[i] = "("
    THEN LET r == StdExpr(s, i + 1)
         IN  IF r.ok /\ r.i <= Len(s) /\ s[r.i] = ")" THEN [ok |-> TRUE, v |-> r.v, i |-> r.i + 1]
             ELSE StdFail
  ELSE IF IsDigit(s[i])
    THEN LET j == StdDigitsEnd(s, i)
         IN  [ok |-> TRUE, v |-> StrToNat(SubSeq(s, i, j - 1)), i |-> j]
  ELSE StdFail

StdTermRest(s, acc, i) ==
  IF i <= Len(s) /\ (s[i] = "*" \/ s[i] = "/")
  THEN LET f == StdFactor(s, i + 1)
       IN  IF ~f.ok THEN StdFail
           ELSE IF s[i] = "*" THEN StdTermRest(s, acc * f.v, f.i)
           ELSE IF f.v = 0 \/ Abs(acc) % Abs(f.v) # 0 THEN StdFail
           ELSE StdTermRest(s, StdQuotient(acc, f.v), f.i)
  ELSE [ok |-> TRUE, v |-> acc, i |-> i]

StdTerm(s, i) ==
  LET f == StdFactor(s, i) IN IF f.ok THEN StdTermRest(s, f.v, f.i) ELSE StdFail

StdExprRest(s, acc, i) ==
  IF i <= Len(s) /\ (s[i] = "+" \/ s[i] = "-")
  THEN LET t == StdTerm(s, i + 1)
       IN  IF ~t.ok THEN StdFail
           ELSE IF s[i] = "+" THEN StdExprRest(s, acc + t.v, t.i)
           ELSE StdExprRest(s, acc - t.v, t.i)
  ELSE [ok |-> TRUE, v |-> acc, i |-> i]

StdExpr(s, i) ==
  LET t == StdTerm(s, i) IN IF t.ok THEN StdExprRest(s, t.v, t.i) ELSE StdFail

\* the whole string is one well-formed expression
StdParse(s) ==
  LET r == StdExpr(s, 1) IN IF r.ok /\ r.i = Len(s) + 1 THEN r ELSE StdFail

IntegerString(v) == IF v < 0 THEN <<"-">> \o NatToStr(-v) ELSE NatToStr(v)

\* C3: for a well-formed infix expression over integers with binary + - * /
\* (divisions exact, by non-zero) and balanced parentheses, the pipeline does
\* not fail, evalRPN leaves exactly the value of the standard reading ('*' and
\* '/' bind tighter, equal precedence associates to the left, parentheses
\* override), and that value is the result recorded; "2+3*4" is 14 and
\* "(2+3)*4" is 20.
C3_StandardPrecedence ==
  /\ (pc # "idle" /\ StdParse(current).ok) =>
        /\ pc # "catch"
        /\ err = ""
        /\ (EvalLoopDone => stack = <<Int2Num(StdParse(current).v)>>)
  /\ \A i \in DOMAIN history :
        StdParse(history[i].expr).ok =>
           history[i].result = IntegerString(StdParse(history[i].expr).v)
  /\ ResultsOf(<<"2", "+", "3", "*", "4">>) \subseteq {<<"1", "4">>}
  /\ ResultsOf(<<"(", "2", "+", "3", ")", "*", "4">>) \subseteq {<<"2", "0">>}
  /\ ResultsOf(<<"8", "-", "3", "-", "2">>) \subseteq {<<"3">>}

\* a left-associative chain, a precedence pair and an overriding parenthesis
\* have all been evaluated
C3_Witness ==
  /\ pc = "idle"
  /\ Len(history) = 1
  /\ StdParse(history[1].expr).ok
  /\ history[1].expr = <<"3", "-", "(", "1", "+", "2", ")">>
  /\ history[1].result = <<"0">>

\* expr is a op n% for two runs of digits a, n and the operator at position k
PercentShape(expr, k) ==
  /\ k \in 2..(Len(expr) - 2)
  /\ IsOperatorChar(expr[k])
  /\ expr[Len(expr)] = "%"
  /\ \A i \in (1..(Len(expr) - 1)) \ {k} : IsDigit(expr[i])

\* a op (n/100), with a division by zero marked as such
PercentValue(expr, k) ==
  LET a == Int2Num(StrToNat(SubSeq(expr, 1, k - 1)))
      n == Rat(StrToNat(SubSeq(expr, k + 1, Len(expr) - 1)), 100)
  IN  IF expr[k] = "+" THEN Add(a, n)
      ELSE IF expr[k] = "-" THEN Sub(a, n)
      ELSE IF expr[k] = "*" THEN Mul(a, n)
      ELSE Div(a, n)

\* C4: the postfix percent divides by 100 only the operand just before it:
\* "a op n%" evaluates to a op (n/100) (and fails with a division by zero
\* exactly when op is '/' and n is 0), "50%" is 0.5 and "200+10%" is 200.1.
C4_PercentBindsOperand ==
  /\ \A k \in 1..Len(current) :
        (pc # "idle" /\ PercentShape(current, k)) =>
           /\ (EvalLoopDone => stack = <<PercentValue(current, k)>>)
           /\ (pc = "catch" => err = "Division by zero" /\ ~IsFinite(PercentValue(current, k)))
  /\ \A i \in DOMAIN history : \A k \in 1..Len(history[i].expr) :
        PercentShape(history[i].expr, k) =>
           history[i].result = ResultString(PercentValue(history[i].expr, k))
  /\ ResultsOf(<<"5", "0", "%">>) \subseteq {<<"0", ".", "5">>}
  /\ ResultsOf(<<"2", "0", "0", "+", "1", "0", "%">>) \subseteq {<<"2", "0", "0", ".", "1">>}
  /\ ~FailedOn(<<"5", "0", "%">>)

C4_Witness ==
  /\ pc = "idle"
  /\ Len(history) = 1
  /\ PercentShape(history[1].expr, 4)
  /\ history[1].expr = <<"2", "0", "0", "+", "1", "0", "%">>
  /\ history[1].result = <<"2", "0", "0", ".", "1">>
  /\ current = <<"2", "0", "0", ".", "1">>

\* C5: when the right operand of '/' is zero (literal or computed) the step
\* fails with DivisionByZero: both operands are gone from the value stack, no
\* quotient is pushed, and the call ends in the catch block with no history
\* entry.
C5_DivisionByZero ==
  [][ /\ ( /\ pc = "eval"
           /\ idx <= Len(rpn)
           /\ rpn[idx] = OperatorTok("/")
           /\ Len(stack) >= 2
           /\ Top(stack) = Int2Num(0) )
         => ( /\ err' = "Division by zero"
              /\ pc' = "catch"
              /\ stack' = Pop(Pop(stack))
              /\ history' = history )
      /\ (err = "Division by zero" /\ pc = "catch")
         => (history' = history /\ current' = <<>> /\ display' = ErrorText) ]_vars

C5_Witness ==
  /\ pc = "catch"
  /\ err = "Division by zero"
  /\ current = <<"5", "/", "(", "2", "-", "2", ")">>
  /\ stack = <<>>

\* every ')' of the token sequence closes an earlier '(' and every '(' is closed
RECURSIVE BalancedFrom(_, _, _)
BalancedFrom(toks, i, depth) ==
  IF i > Len(toks) THEN depth = 0
  ELSE IF toks[i].type = "left_paren" THEN BalancedFrom(toks, i + 1, depth + 1)
  ELSE IF toks[i].type = "right_paren" THEN depth > 0 /\ BalancedFrom(toks, i + 1, depth - 1)
  ELSE BalancedFrom(toks, i + 1, depth)

Balanced(toks) == BalancedFrom(toks, 1, 0)

\* C6: toRPN fails with MismatchedParentheses exactly when the parentheses of
\* the token sequence are unbalanced: a sequence that reaches evalRPN is
\* balanced, a failure of toRPN is on an unbalanced one, and "(1+2" and "1+2)"
\* both fail so.
C6_MismatchedIffUnbalanced ==
  /\ (err = "Mismatched parentheses" => ~Balanced(tokens))
  /\ (pc = "eval" => Balanced(tokens))
  /\ (pc = "catch" /\ ~Balanced(tokens) => err = "Mismatched parentheses")
  /\ (FailedOn(<<"(", "1", "+", "2">>) \/ FailedOn(<<"1", "+", "2", ")">>)
        => err = "Mismatched parentheses")
  /\ ResultsOf(<<"(", "1", "+", "2">>) = {}
  /\ ResultsOf(<<"1", "+", "2", ")">>) = {}

C6_Witness ==
  /\ pc = "catch"
  /\ err = "Mismatched parentheses"
  /\ current = <<"(", "1", "+", "2">>
  /\ ~Balanced(tokens)

\* C7: a failure at any stage ends in the same error state: the step that
\* raises it goes to the catch block without touching the history, and the
\* catch block shows "Error", empties the buffer and leaves the history as it
\* was.
C7_SingleErrorState ==
  [][ /\ (err' # "" => history' = history)
      /\ (err = "" /\ err' # "" => pc' = "catch")
      /\ (pc' = "catch" => err' # "" /\ current' = current /\ display' = display)
      /\ (pc = "catch" =>
            /\ display' = ErrorText
            /\ current' = <<>>
            /\ history' = history
            /\ pc' = "idle") ]_vars

C7_Witness ==
  /\ pc = "idle"
  /\ calls = 1
  /\ err = "Invalid number"
  /\ display = ErrorText
  /\ current = <<>>
  /\ history = <<>>

\* C8 (as claimed): a result string fed back in as the expression evaluates
\* successfully to itself: no call fails on a string an earlier call returned,
\* and every entry made from a returned string has that string as its result.
C8_ReevaluationIdempotent ==
  \A i \in DOMAIN history :
     /\ ~FailedOn(history[i].result)
     /\ \A j \in DOMAIN history :
           history[j].expr = history[i].result => history[j].result = history[i].result

\* expr holds a character the tokenizer does not know
HasInvalidChar(expr) ==
  \E i \in DOMAIN expr :
     ~(\/ IsDigit(expr[i])
       \/ expr[i] \in {".", "+", "-", "*", "/", "(", ")", "%"}
       \/ IsSpace(expr[i]))

\* C9: on an input with a character outside digits, '.', the operators, the
\* parentheses, '%' and whitespace, tokenize fails with InvalidCharacter
\* wherever the character stands, and no token reaches the parser.
C9_InvalidCharacterAtomic ==
  (pc # "idle" /\ HasInvalidChar(current)) =>
     /\ pc \in {"tokenize", "catch"}
     /\ (pc = "catch" => err = "Invalid character")
     /\ tokens = <<>>
     /\ rpn = <<>>

C9_Witness ==
  /\ pc = "catch"
  /\ current = <<"1", "+", "a">>
  /\ err = "Invalid character"
  /\ tokens = <<>>

\* C10: evalRPN never pops an empty value stack: a percent met with no value
\* fails with PercentError and a binary operator met with fewer than two
\* values fails with OperatorError, the stack untouched in both cases, and no
\* step takes more values than the stack holds; a bare "%" fails with
\* PercentError.
C10_NoPopOfEmptyStack ==
  [][ (pc = "eval" /\ idx <= Len(rpn)) =>
        /\ (rpn[idx].type = "percent" /\ Len(stack) < 1)
              => (err' = "Percent error" /\ pc' = "catch" /\ stack' = stack)
        /\ (rpn[idx].type = "operator" /\ Len(stack) < 2)
              => (err' = "Operator error" /\ pc' = "catch" /\ stack' = stack)
        /\ (rpn[idx].type = "percent" /\ err' = "") => Len(stack') = Len(stack)
        /\ (rpn[idx].type = "operator" /\ err' = "") => Len(stack') = Len(stack) - 1
        /\ (current = <<"%">> => err' = "Percent error") ]_vars

C10_Witness ==
  /\ pc = "catch"
  /\ current = <<"%">>
  /\ err = "Percent error"
  /\ stack = <<>>

\* C11: a successful evaluateExpression appends exactly one pair to the
\* history, whose expr is the buffer as it was when the call started (the
\* buffer does not change while the call runs) and whose result is the result
\* string, and leaves that string in the buffer; the history changes in no
\* other step.
C11_OnePairPerSuccess ==
  [][ /\ (pc' # "idle" => current' = current)
      /\ (history' # history => (EvalLoopDone /\ pc' = "idle" /\ err' = ""))
      /\ (EvalLoopDone /\ pc' = "idle" /\ Len(history) < HistoryLimit)
            => /\ history' = Append(history, [expr |-> current, result |-> current'])
               /\ display' = current'
               /\ current' # <<>> ]_vars

C11_Witness ==
  /\ pc = "idle"
  /\ history = <<[expr |-> <<"2", "+", "3", "*", "4">>, result |-> <<"1", "4">>]>>
  /\ current = <<"1", "4">>

\* C12: the outcome of evaluating a string depends on the string alone: two
\* evaluations of one string recorded in a behaviour have the same result, a
\* string that has a recorded result never fails, and every outcome, reached
\* from whatever state the call started in, is the one the pipeline gives for
\* that string on its own.
C12_OutcomeDependsOnStringOnly ==
  /\ \A i, j \in DOMAIN history :
        history[i].expr = history[j].expr => history[i].result = history[j].result
  /\ \A i \in DOMAIN history :
        /\ ~FailedOn(history[i].expr)
        /\ Evaluate(history[i].expr) = [ok |-> TRUE, result |-> history[i].result, err |-> ""]
  /\ pc = "catch" => Evaluate(current) = [ok |-> FALSE, result |-> <<>>, err |-> err]

\* the same string evaluated twice, the second time with a history
C12_Witness ==
  /\ pc = "idle"
  /\ calls = 2
  /\ history = << [expr |-> <<"-", "5">>, result |-> <<"-", "5">>],
                  [expr |-> <<"-", "5">>, result |-> <<"-", "5">>] >>

\* C13: evalRPN returns a value only when the loop leaves exactly one value on
\* the stack, and that value is the one returned; with none ("()") or with two
\* or more ("1 5", "(1)(2)") the call fails with InvalidExpression.
C13_ExactlyOneValue ==
  [][ EvalLoopDone =>
        /\ (Len(stack) # 1 => (pc' = "catch" /\ err' = "Invalid expression"))
        /\ (Len(stack) = 1 =>
              (pc' = "idle" /\ err' = "" /\ current' = ResultString(stack[1])))
        /\ (current \in { <<"(", ")">>, <<"1", " ", "5">>,
                          <<"(", "1", ")", "(", "2", ")">> }
              => err' = "Invalid expression") ]_vars

C13_Witness ==
  /\ pc = "catch"
  /\ err = "Invalid expression"
  /\ current = <<"(", "1", ")", "(", "2", ")">>
  /\ Len(stack) = 2

\* the members of a set of positions in increasing order
Ascending(S) == [k \in 1..Cardinality(S) |-> CHOOSE t \in S : Cardinality({u \in S : u < t}) = k - 1]

\* the last character before position i that is not whitespace, "" if none
PrevChar(expr, i) ==
  LET before == {j \in 1..(i - 1) : ~IsSpace(expr[j])}
  IN  IF before = {} THEN "" ELSE expr[CHOOSE j \in before : \A u \in before : u <= j]

\* the '-' at position i opens the expression, or follows an operator or a '('
StandsAsSign(expr, i) ==
  /\ expr[i] = "-"
  /\ (PrevChar(expr, i) = "" \/ IsOperatorChar(PrevChar(expr, i)) \/ PrevChar(expr, i) = "(")

\* the numbers written in the expression: the starts of its runs of [0-9.]
WrittenNumbers(expr) ==
  {i \in DOMAIN expr :
     /\ (IsDigit(expr[i]) \/ expr[i] = ".")
     /\ (i = 1 \/ ~(IsDigit(expr[i - 1]) \/ expr[i - 1] = "."))}

\* the call in progress has tokenized its expression
Tokenized == pc \in {"parse", "eval"} \/ (pc = "catch" /\ err # "Invalid character")

\* C14: the tokenizer puts an implicit Number("0") right before an
\* Operator("-") exactly when that '-' is the first token or follows an
\* Operator or a LeftParen: each such '-' has the zero before it, and the
\* token list holds no other number than those and the numbers written, so
\* none is inserted for a '-' after a Number, a RightParen or a Percent, nor
\* for '+', '*' or '/'.
C14_ImplicitZeroExactly ==
  Tokenized =>
    LET opChars == Ascending({i \in DOMAIN current : IsOperatorChar(current[i])})
        opToks == Ascending({t \in DOMAIN tokens : tokens[t].type = "operator"})
        signs == {i \in DOMAIN current : StandsAsSign(current, i)}
        numbers == {t \in DOMAIN tokens : tokens[t].type = "number"}
    IN  /\ Len(opToks) = Len(opChars)
        /\ \A k \in DOMAIN opChars :
              /\ tokens[opToks[k]].value = current[opChars[k]]
              /\ (opChars[k] \in signs =>
                    (opToks[k] > 1 /\ tokens[opToks[k] - 1] = NumberTok(<<"0">>)))
        /\ Cardinality(numbers) = Cardinality(WrittenNumbers(current)) + Cardinality(signs)

C14_Witness ==
  /\ pc = "parse"
  /\ current = <<"(", "-", "2", ")", "*", "3">>
  /\ tokens = << LeftParenTok, NumberTok(<<"0">>), OperatorTok("-"), NumberTok(<<"2">>),
                 RightParenTok, OperatorTok("*"), NumberTok(<<"3">>) >>

IsParenTok(token) == token.type = "left_paren" \/ token.type = "right_paren"

IsOperandTok(token) == token.type = "number" \/ token.type = "percent"

\* out is toks without its parentheses, reordered with numbers and percents in place
SameTokensReordered(toks, out) ==
  /\ \A i \in DOMAIN out : ~IsParenTok(out[i])
  /\ \A i \in DOMAIN toks : IsParenTok(toks[i]) \/ Count(out, toks[i]) = Count(toks, toks[i])
  /\ \A i \in DOMAIN out : Count(out, out[i]) = Count(toks, out[i])
  /\ SelectSeq(out, IsOperandTok) = SelectSeq(toks, IsOperandTok)

\* C15 (as claimed): when toRPN succeeds its output has no parenthesis, holds
\* exactly the Number, Operator and Percent tokens of its input and keeps the
\* Numbers and Percents in their order; and at the end of every call,
\* successful or not, the operator stack is empty.
C15_OutputAndEmptyStackAlways ==
  Tokenized =>
    /\ (toRPN(tokens).err = "" => SameTokensReordered(tokens, toRPN(tokens).output))
    /\ toRPN(tokens).ops = <<>>

\* C15 (amended): when toRPN succeeds its output has no parenthesis, holds
\* exactly the Number, Operator and Percent tokens of its input and keeps the
\* Numbers and Percents in their order, and the operator stack is empty at
\* the end of the call; a call that fails can leave entries on the stack, and
\* then only below a '(' that is never closed.
C15_OutputAndEmptyStackOnSuccess ==
  /\ Tokenized =>
       /\ (toRPN(tokens).err = "" =>
             /\ SameTokensReordered(tokens, toRPN(tokens).output)
             /\ toRPN(tokens).ops = <<>>)
       /\ (toRPN(tokens).ops # <<>> =>
             /\ toRPN(tokens).err = "Mismatched parentheses"
             /\ Count(tokens, LeftParenTok) > Count(tokens, RightParenTok))
  /\ (pc = "eval" => rpn = toRPN(tokens).output /\ SameTokensReordered(tokens, rpn))

C15_Witness ==
  /\ pc = "eval"
  /\ current = <<"(", "2", "+", "3", ")", "*", "4">>
  /\ rpn = << NumberTok(<<"2">>), NumberTok(<<"3">>), OperatorTok("+"),
              NumberTok(<<"4">>), OperatorTok("*") >>
  /\ toRPN(tokens).ops = <<>>

\* C16: evaluateExpression called with an empty buffer returns at once: the
\* display, the buffer and the history stay as they were (an "Error" on the
\* display stays), and no try block is ever entered with an empty buffer.
C16_EmptyBufferIsNoOp ==
  [][ /\ (pc = "idle" /\ current = <<>> /\ calls' # calls)
         => /\ pc' = "idle"
            /\ current' = current
            /\ display' = display
            /\ history' = history
      /\ (pc' \in {"tokenize", "parse", "eval"} => current' # <<>>) ]_vars

C16_Witness ==
  /\ pc = "idle"
  /\ calls = 2
  /\ current = <<>>
  /\ display = ErrorText
  /\ history = <<>>

\* C17: the history never holds more than HistoryLimit entries; a successful
\* evaluation adds its pair at the end, and when that would be entry
\* HistoryLimit + 1 the oldest entry is dropped and the others keep their order.
C17_HistoryCapped ==
  [][ /\ Len(history) <= HistoryLimit
      /\ Len(history') <= HistoryLimit
      /\ (calls' # calls /\ current # <<>> /\ Evaluate(current).ok) =>
            LET pair == [expr |-> current, result |-> current']
            IN  IF Len(history) < HistoryLimit
                THEN history' = Append(history, pair)
                ELSE history' = Append(Tail(history), pair) ]_vars

C17_Witness ==
  /\ calls = 1
  /\ Len(history) = HistoryLimit
  /\ history[1] = StoredHistory(HistoryLimit)[2]
  /\ history[HistoryLimit - 1] = StoredHistory(HistoryLimit)[HistoryLimit]
  /\ history[HistoryLimit] = [expr |-> <<"1", "-", "1">>, result |-> <<"0">>]
  /\ current = <<"0">>

\* the segments of a buffer: its maximal runs without a separator
SegmentStarts(cur) == {i \in DOMAIN cur : ~IsSeparator(cur[i]) /\ (i = 1 \/ IsSeparator(cur[i - 1]))}

SegmentEnd(cur, i) ==
  LET seps == {j \in i..Len(cur) : IsSeparator(cur[j])}
  IN  IF seps = {} THEN Len(cur) + 1 ELSE CHOOSE j \in seps : \A k \in seps : j <= k

Segments(cur) == {SubSeq(cur, i, SegmentEnd(cur, i) - 1) : i \in SegmentStarts(cur)}

\* no segment has more than one dot and none is a dot alone
SegmentsWellFormed(cur) ==
  \A seg \in Segments(cur) : Count(seg, ".") <= 1 /\ seg # <<".">>

HasOverflowingNumber(cur) == \E i \in DOMAIN cur : IsRunStart(cur, i) /\ Overflows(cur, i)

\* C18 (as claimed): in every buffer the keys can build no segment has more
\* than one dot or is a dot alone, hence no evaluation of such a buffer fails
\* with "Invalid number".
C18_NeverInvalidNumber ==
  /\ SegmentsWellFormed(current)
  /\ err # "Invalid number"

\* C18 (amended): in every buffer the keys can build no segment has more than
\* one dot or is a dot alone; an evaluation of such a buffer fails with
\* "Invalid number" only when one of its numbers is too large to be finite.
C18_InvalidNumberOnlyOnOverflow ==
  /\ [](SegmentsWellFormed(current))
  /\ [][ (calls' # calls /\ err' = "Invalid number") => HasOverflowingNumber(current) ]_vars

C18_Witness ==
  /\ calls = 1
  /\ err = "Invalid number"
  /\ display = ErrorText
  /\ current = <<>>

====
